---------------------------- MODULE Spec2Model ----------------------------
(***************************************************************************)
(* Model of the PayzCore Node SDK core:                                    *)
(*   - HttpClient (src/src/client.ts): construction, request(), the retry  *)
(*     loop, buildApiError and the error classes of src/src/errors.ts;     *)
(*   - webhook verification (src/unnamed/part_002).                        *)
(* Strings the code only passes through are string tokens; strings the     *)
(* code parses or concatenates are sequences of character tokens.          *)
(***************************************************************************)
EXTENDS Integers, Sequences, FiniteSets, TLC

\* ------------------------------------------------------------------------
\* Bounds of the model
\* ------------------------------------------------------------------------

\* Largest explicit options.maxRetries enumerated (the default adds 2).
MaxRetriesOpt == 1

\* ------------------------------------------------------------------------
\* Program constants (src/src/client.ts:12-15)
\* ------------------------------------------------------------------------

DEFAULT_BASE_URL == "https://api.payzcore.com"
DEFAULT_TIMEOUT == 30000
DEFAULT_MAX_RETRIES == 2
RETRY_BASE_MS == 200

\* ------------------------------------------------------------------------
\* Values
\* ------------------------------------------------------------------------

\* JavaScript's undefined / an option or header that is not there.
Absent == "undefined"

Clients == {"k1", "k2"}
Calls == {"c1", "c2"}

\* The apiKey argument each client instance is constructed with.
ApiKeyOf(cl) == IF cl = "k1" THEN "pk_live_1" ELSE "mk_live_2"

\* options.maxRetries values enumerated: absent, a negative one, 0 .. MaxRetriesOpt.
MaxRetriesOptions ==
  {[given |-> FALSE, n |-> 0]} \cup
  {[given |-> TRUE, n |-> k] : k \in (0 - 1) .. MaxRetriesOpt}

\* options.masterKey values enumerated.
MasterKeyOptions == {Absent, "true", "false"}

OptionsSet == [maxRetries : MaxRetriesOptions, masterKey : MasterKeyOptions]

\* The options the second client is constructed with: the defaults, or
\* master-key authentication without retries.
OptionsK2 ==
  {[maxRetries |-> [given |-> FALSE, n |-> 0], masterKey |-> Absent],
   [maxRetries |-> [given |-> TRUE, n |-> 0], masterKey |-> "true"]}

\* JSON values a response body can decode to: null, a number, or an object
\* with optional "error" and "details" members.
JsonNull == [t |-> "null", error |-> Absent, details |-> Absent]
JsonNumber == [t |-> "number", error |-> Absent, details |-> Absent]
JsonObject(e, d) == [t |-> "object", error |-> e, details |-> d]

\* Response body texts.
BodyTexts == {"<html>", "null", "7", "{}", "{error,details}"}

\* Response.json(): JSON.parse of the body text; ok = FALSE is a rejected
\* promise (SyntaxError).
ResponseJson(text) ==
  CASE text = "null" -> [ok |-> TRUE, val |-> JsonNull]
    [] text = "7" -> [ok |-> TRUE, val |-> JsonNumber]
    [] text = "{}" -> [ok |-> TRUE, val |-> JsonObject(Absent, Absent)]
    [] text = "{error,details}" ->
         [ok |-> TRUE, val |-> JsonObject("invalid", "field errors")]
    [] OTHER -> [ok |-> FALSE, val |-> JsonNull]

\* ------------------------------------------------------------------------
\* Error classes (src/src/errors.ts)
\* ------------------------------------------------------------------------

\* retryAfter values: null, an integer, or NaN.
NullNum == [t |-> "null", v |-> 0]
NaN == [t |-> "NaN", v |-> 0]
Num(k) == [t |-> "int", v |-> k]

\* An Error object.  "at" identifies the instance by the attempt that
\* created it (every attempt creates fresh Error objects).
ErrorObject(name, message, status, code, details, retryAfter, isDaily, at) ==
  [name |-> name, message |-> message, status |-> status, code |-> code,
   details |-> details, retryAfter |-> retryAfter, isDaily |-> isDaily,
   at |-> at]

PayzCoreError(message, status, code, at) ==
  ErrorObject("PayzCoreError", message, status, code, Absent, NullNum, FALSE, at)

AuthenticationError(message, at) ==
  ErrorObject("AuthenticationError", message, 401, "authentication_error",
              Absent, NullNum, FALSE, at)

ForbiddenError(message, at) ==
  ErrorObject("ForbiddenError", message, 403, "forbidden",
              Absent, NullNum, FALSE, at)

NotFoundError(message, at) ==
  ErrorObject("NotFoundError", message, 404, "not_found",
              Absent, NullNum, FALSE, at)

ValidationError(message, details, at) ==
  ErrorObject("ValidationError", message, 400, "validation_error",
              details, NullNum, FALSE, at)

RateLimitError(message, retryAfter, isDaily, at) ==
  ErrorObject("RateLimitError", message, 429, "rate_limit_error",
              Absent, retryAfter, isDaily, at)

IdempotencyError(message, at) ==
  ErrorObject("IdempotencyError", message, 409, "idempotency_error",
              Absent, NullNum, FALSE, at)

\* An error that is not one of the SDK's classes: the TypeError of a property
\* read on null, the SyntaxError of Response.json(), fetch's TypeError on a
\* network failure, the TimeoutError of AbortSignal.timeout.  It has no
\* status and no code (-1 and Absent here).
RawError(name, message, at) ==
  ErrorObject(name, message, 0 - 1, Absent, Absent, NullNum, FALSE, at)

\* The classes for which "err instanceof PayzCoreError" holds: the base class
\* and its six subclasses.
PayzCoreErrorNames ==
  {"PayzCoreError", "AuthenticationError", "ForbiddenError", "NotFoundError",
   "ValidationError", "RateLimitError", "IdempotencyError"}

\* The instanceof chain of the catch block of request().
InstanceOfPayzCoreError(err) == err.name \in PayzCoreErrorNames

\* No error (lastError = null, no result yet).
NoError == RawError("none", "", 0 - 1)

\* ------------------------------------------------------------------------
\* HTTP responses
\* ------------------------------------------------------------------------

Digits == {"0", "6"}
DigitValue(ch) == IF ch = "6" THEN 6 ELSE 0

\* parseInt(text, 10) on a sequence of characters: the longest prefix of
\* decimal digits, NaN when there is none.
RECURSIVE ParseDigits(_, _, _)
ParseDigits(text, i, acc) ==
  IF i > Len(text) \/ text[i] \notin Digits
  THEN acc
  ELSE ParseDigits(text, i + 1, acc * 10 + DigitValue(text[i]))

ParseInt(text) ==
  IF text = <<>> \/ text[1] \notin Digits THEN NaN
  ELSE Num(ParseDigits(text, 1, 0))

\* A response header: missing (Headers.get gives null) or a text.
NoHeader == [present |-> FALSE, text |-> <<>>]
Header(text) == [present |-> TRUE, text |-> text]

\* X-RateLimit-Reset values enumerated: missing, empty, "60", "x", "6x", "x6".
ResetHeaders ==
  {NoHeader, Header(<<>>), Header(<<"6", "0">>), Header(<<"x">>),
   Header(<<"6", "x">>), Header(<<"x", "6">>)}

\* X-RateLimit-Daily values enumerated: missing, "true", "TRUE".
DailyHeaders == {NoHeader, Header(<<"true">>), Header(<<"TRUE">>)}

\* Statuses enumerated: 2xx, a 3xx, the mapped 4xx, an unmapped 4xx, 429, 5xx.
Statuses == {200, 304, 400, 401, 403, 404, 409, 422, 429, 500, 503}

\* Response.statusText: empty (HTTP/2) or the reason phrase.
StatusTexts == {"", "Reason Phrase"}

\* The responses enumerated.  The rate-limit headers vary on 429 responses
\* only (no other branch of the code reads a response header) and the
\* status text varies on undecodable bodies only (the code reads it only
\* when Response.json() rejects).
Responses ==
  {r \in [status : Statuses, body : BodyTexts, statusText : StatusTexts,
          reset : ResetHeaders, daily : DailyHeaders] :
     /\ r.status # 429 => r.reset = NoHeader /\ r.daily = NoHeader
     /\ ResponseJson(r.body).ok => r.statusText = "Reason Phrase"}

\* Response.ok
ResponseOk(response) == response.status >= 200 /\ response.status <= 299

\* Placeholder for the "response" local before the first response arrives.
NoResponse ==
  [status |-> 0, body |-> "", statusText |-> "", reset |-> NoHeader,
   daily |-> NoHeader]

\* ------------------------------------------------------------------------
\* buildApiError (src/src/client.ts:121-152)
\* ------------------------------------------------------------------------

\* The error body: the decoded JSON, or { error: statusText || 'Unknown error' }
\* when Response.json() rejects.
ErrorBody(response) ==
  LET parsed == ResponseJson(response.body) IN
  IF parsed.ok THEN parsed.val
  ELSE JsonObject(IF response.statusText = "" THEN "Unknown error"
                  ELSE response.statusText, Absent)

\* body.error ?? 'Unknown error'
ErrorMessage(body) == IF body.error = Absent THEN "Unknown error" ELSE body.error

\* resetHeader ? parseInt(resetHeader, 10) : null
RetryAfterOf(response) ==
  IF response.reset.present /\ response.reset.text # <<>>
  THEN ParseInt(response.reset.text)
  ELSE NullNum

\* dailyHeader === 'true'
IsDailyOf(response) == response.daily = Header(<<"true">>)

\* The switch on response.status.
ErrorForStatus(response, message, details, at) ==
  CASE response.status = 400 -> ValidationError(message, details, at)
    [] response.status = 401 -> AuthenticationError(message, at)
    [] response.status = 403 -> ForbiddenError(message, at)
    [] response.status = 404 -> NotFoundError(message, at)
    [] response.status = 409 -> IdempotencyError(message, at)
    [] response.status = 429 ->
         RateLimitError(message, RetryAfterOf(response), IsDailyOf(response), at)
    [] OTHER -> PayzCoreError(message, response.status, "api_error", at)

\* buildApiError: thrown = TRUE when the function itself throws, which it
\* does on reading body.error of a body that decoded to null (TypeError).
BuildApiError(response, at) ==
  LET body == ErrorBody(response) IN
  IF body.t = "null"
  THEN [thrown |-> TRUE,
        err |-> RawError("TypeError", "Cannot read properties of null", at)]
  ELSE [thrown |-> FALSE,
        err |-> ErrorForStatus(response, ErrorMessage(body), body.details, at)]

\* ------------------------------------------------------------------------
\* HttpClient construction (src/src/client.ts:24-30)
\* ------------------------------------------------------------------------

Constructor(apiKey, options) ==
  [apiKey |-> apiKey,
   baseUrl |-> DEFAULT_BASE_URL,
   timeout |-> DEFAULT_TIMEOUT,
   maxRetries |-> IF options.maxRetries.given THEN options.maxRetries.n
                  ELSE DEFAULT_MAX_RETRIES,
   useMasterKey |-> IF options.masterKey = Absent THEN FALSE
                    ELSE options.masterKey = "true"]

\* ------------------------------------------------------------------------
\* State
\* ------------------------------------------------------------------------

VARIABLES
  options,     \* client -> the options argument of its constructor
  config,      \* client -> the instance's private readonly fields
  pc,          \* call -> "idle" | "fetching" | "sleeping" | "returned" | "raised"
  instance,    \* call -> the client the call runs on ("this")
  headers,     \* call -> the headers object built before the loop
  attempt,     \* call -> the loop variable
  lastError,   \* call -> the lastError local (NoError is null)
  result,      \* call -> the value returned or the error raised
  settled,     \* call -> how the latest fetch promise settled: "pending",
               \*         "resolved", "network" or "timeout"
  response,    \* call -> the response of the latest resolved fetch
  fetched,     \* call -> the header sets passed to fetch, one per attempt
  sleeps,      \* call -> the sleep() durations awaited so far
  transient,   \* call -> every completed attempt ended in a 5xx response,
               \*         a network failure or a timeout
  now,         \* Date.now(), in ms
  whArgs,      \* the arguments of the webhook call
  whPc,        \* "ready" | "done"
  whResult,    \* what verifyWebhookSignature did: returned value or raised
  evResult,    \* what parseWebhook or constructEvent did
  console      \* the console.warn lines written

httpVars ==
  <<options, config, pc, instance, headers, attempt, lastError, result,
    settled, response, fetched, sleeps, transient>>

whVars == <<now, whArgs, whPc, whResult, evResult, console>>

vars == <<httpVars, whVars>>

\* ------------------------------------------------------------------------
\* Webhook verification (src/unnamed/part_002:25-51)
\* ------------------------------------------------------------------------

\* The instant the model's date texts are relative to, in ms.
BaseMs == 1000000

\* A date text is a sequence of tokens: a date-time to the second, then
\* optionally "." and a millisecond fraction.  The date-time tokens name
\* their offset from BaseMs.
DateTokens == {"-301s", "-300s", "+0s", "+300s"}
Fractions == {"000", "001", "999"}

TokenMs(tok) ==
  CASE tok = "-301s" -> BaseMs - 301000
    [] tok = "-300s" -> BaseMs - 300000
    [] tok = "+300s" -> BaseMs + 300000
    [] OTHER -> BaseMs

FractionMs(frac) ==
  CASE frac = "001" -> 1
    [] frac = "999" -> 999
    [] OTHER -> 0

\* new Date(text).getTime(): the instant in ms, or NaN for a text that is
\* no date.  Two texts can name the same instant ("T" and "T.000").
DateGetTime(text) ==
  CASE Len(text) = 1 /\ text[1] \in DateTokens -> Num(TokenMs(text[1]))
    [] Len(text) = 3 /\ text[1] \in DateTokens /\ text[2] = "."
         /\ text[3] \in Fractions ->
         Num(TokenMs(text[1]) + FractionMs(text[3]))
    [] OTHER -> NaN

\* Math.abs
Abs(x) == IF x < 0 THEN 0 - x ELSE x

\* Line 39: the default of options.toleranceMs.
DefaultToleranceMs == 5 * 60 * 1000

\* A variant of SignedMessage that signs the body alone.
SignedMessageBodyOnly(timestamp, body) == body

\* Line 45: `${timestamp}.${body}`
SignedMessage(timestamp, body) == timestamp \o <<".">> \o body

\* createHmac('sha256', secret).update(message): an injective function of
\* the key and the message.
Hmac(secret, message) == <<secret, message>>

\* A text of hexadecimal digits: the digest it spells, the case of its
\* letters and its length in bytes.  digest('hex') is 64 lowercase digits.
HexLen == 64
DigestHex(digest) == [digest |-> digest, form |-> "lower", len |-> HexLen]
EmptyText == [digest |-> <<<<>>, <<>>>>, form |-> "lower", len |-> 0]

\* Buffer.from(text).byteLength
ByteLength(text) == text.len

\* crypto.timingSafeEqual: throws a RangeError when the byte lengths
\* differ, else compares the bytes.
TimingSafeEqual(a, b) ==
  IF ByteLength(a) # ByteLength(b)
  THEN [raised |-> TRUE, value |-> FALSE]
  ELSE [raised |-> FALSE, value |-> a = b]

ReturnValue(b) == [raised |-> FALSE, value |-> b]

\* Line 31: if (!body || !signature || !secret) return false
MissingArgument(body, signature, secret) ==
  body = <<>> \/ ByteLength(signature) = 0 \/ secret = <<>>

\* Lines 34-35: options?.timestamp, and its falsiness.
TimestampOf(opts) ==
  IF opts.given /\ opts.timestamp.present THEN opts.timestamp.text ELSE <<>>

\* Line 39: options?.toleranceMs ?? 5 * 60 * 1000
ToleranceOf(opts) ==
  IF opts.given /\ opts.toleranceMs.given THEN opts.toleranceMs.n
  ELSE DefaultToleranceMs

\* A variant of OutsideWindow whose window excludes its boundary.
OutsideWindowExclusive(ts, nowMs, tolerance) ==
  ts = NaN \/ Abs(nowMs - ts.v) >= tolerance

\* Line 40: isNaN(ts) || Math.abs(Date.now() - ts) > tolerance
OutsideWindow(ts, nowMs, tolerance) ==
  ts = NaN \/ Abs(nowMs - ts.v) > tolerance

\* A variant of CompareSignature without the length check of line 49.
CompareSignatureUnchecked(signature, expected) ==
  TimingSafeEqual(signature, expected)

\* Lines 46-50: the comparison of the signature with the expected digest.
CompareSignature(signature, expected) ==
  IF ByteLength(signature) # ByteLength(expected) THEN ReturnValue(FALSE)
  ELSE TimingSafeEqual(signature, expected)

verifyWebhookSignature(body, signature, secret, opts, nowMs) ==
  IF MissingArgument(body, signature, secret) THEN ReturnValue(FALSE)
  ELSE IF TimestampOf(opts) = <<>> THEN ReturnValue(FALSE)
  ELSE IF OutsideWindow(DateGetTime(TimestampOf(opts)), nowMs, ToleranceOf(opts))
  THEN ReturnValue(FALSE)
  ELSE CompareSignature(
         signature,
         DigestHex(Hmac(secret, SignedMessage(TimestampOf(opts), body))))

\* ------------------------------------------------------------------------
\* parseWebhook and constructEvent (src/unnamed/part_002:60-126)
\* ------------------------------------------------------------------------

\* A member of the decoded body: undefined (no such member), null, or a
\* string.
Undefined == [t |-> "undefined", s |-> ""]
Null == [t |-> "null", s |-> ""]
Str(text) == [t |-> "string", s |-> text]

SUPPORTED_NETWORKS == {"TRC20", "BEP20", "ERC20", "POLYGON", "ARBITRUM"}
SUPPORTED_TOKENS == {"USDT", "USDC"}

\* The wire members the model follows.  The members not listed (event,
\* payment_id, address, ...) are copied like network.
WireNames ==
  {"network", "token", "external_order_id", "buyer_email", "payment_link_id"}

\* A body text is a sequence of tokens.  An object is "{", then a name
\* token and a value token per member, then "}".  The value token null is
\* the JSON null, '' the empty string, any other a string.
WireValue(tok) ==
  CASE tok = "null" -> Null
    [] tok = "''" -> Str("")
    [] OTHER -> Str(tok)

RECURSIVE ReadMembers(_, _, _)
ReadMembers(text, i, obj) ==
  IF i + 1 > Len(text) - 1 THEN obj
  ELSE ReadMembers(text, i + 2, [obj EXCEPT ![text[i]] = WireValue(text[i + 1])])

\* JSON.parse(body): a SyntaxError (ok = FALSE), or the value: null, a
\* number, or an object (its members, Undefined where it has none).
JsonParse(text) ==
  LET none == [n \in WireNames |-> Undefined] IN
  CASE text = <<"null">> -> [ok |-> TRUE, t |-> "null", members |-> none]
    [] text = <<"7">> -> [ok |-> TRUE, t |-> "number", members |-> none]
    [] /\ Len(text) >= 2 /\ text[1] = "{" /\ text[Len(text)] = "}"
       /\ Len(text) % 2 = 0
       /\ \A i \in 2 .. Len(text) - 1 : (i % 2 = 0) => text[i] \in WireNames ->
         [ok |-> TRUE, t |-> "object", members |-> ReadMembers(text, 2, none)]
    [] OTHER -> [ok |-> FALSE, t |-> "null", members |-> none]

\* A variant of Truthy that takes the empty string for true.
TruthyEmptyToo(v) == v.t = "string"

\* A JavaScript value used as a condition.
Truthy(v) == v.t = "string" /\ v.s # ""

\* Lines 68-73: the console.warn lines.
UnknownNetwork(v) == Truthy(v) /\ v.s \notin SUPPORTED_NETWORKS
UnknownToken(v) == Truthy(v) /\ v.s \notin SUPPORTED_TOKENS

Warnings(raw) ==
  (IF UnknownNetwork(raw["network"])
   THEN <<<<"[PayzCore] Unknown network in webhook: ", raw["network"].s>>>>
   ELSE <<>>)
  \o
  (IF UnknownToken(raw["token"])
   THEN <<<<"[PayzCore] Unknown token in webhook: ", raw["token"].s>>>>
   ELSE <<>>)

\* A variant of Coalesce that replaces undefined only, not null.
CoalesceUndefinedOnly(v, fallback) == IF v.t = "undefined" THEN fallback ELSE v

\* x ?? fallback
Coalesce(v, fallback) == IF v.t \in {"undefined", "null"} THEN fallback ELSE v

\* Lines 75-96: the payload.
Payload(raw) ==
  [externalOrderId |-> Coalesce(raw["external_order_id"], Undefined),
   network |-> raw["network"],
   token |-> Coalesce(raw["token"], Str("USDT")),
   buyerEmail |-> raw["buyer_email"],
   paymentLinkId |-> raw["payment_link_id"]]

NoPayload == Payload([n \in WireNames |-> Undefined])

\* What a webhook function did: returned a payload or raised an error;
\* what it wrote with console.warn; whether it called JSON.parse.
Returned(payload, warnings) ==
  [kind |-> "payload", error |-> "", message |-> "", payload |-> payload,
   warnings |-> warnings, parsed |-> TRUE]

Threw(error, message, parsed) ==
  [kind |-> "raised", error |-> error, message |-> message,
   payload |-> NoPayload, warnings |-> <<>>, parsed |-> parsed]

parseWebhook(body) ==
  LET raw == JsonParse(body) IN
  IF ~raw.ok
  THEN Threw("WebhookSignatureError", "Invalid webhook payload: malformed JSON", TRUE)
  ELSE IF raw.t = "null"
  THEN Threw("TypeError", "Cannot read properties of null", TRUE)
  ELSE Returned(Payload(raw.members), Warnings(raw.members))

\* A variant of ParseOrThrow that lets the error of parseWebhook through.
ParseUncaught(body) == parseWebhook(body)

\* Lines 121-125: try { return parseWebhook(body) } catch { throw ... }
ParseOrThrow(body) ==
  LET r == parseWebhook(body) IN
  IF r.kind = "raised"
  THEN Threw("WebhookSignatureError", "Invalid webhook payload", TRUE)
  ELSE r

constructEvent(body, signature, secret, opts, nowMs) ==
  LET v == verifyWebhookSignature(body, signature, secret, opts, nowMs) IN
  IF v.raised THEN Threw("RangeError", "Input buffers must have the same byte length", FALSE)
  ELSE IF ~v.value
  THEN Threw("WebhookSignatureError", "Webhook signature verification failed", FALSE)
  ELSE ParseOrThrow(body)

\* ------------------------------------------------------------------------
\* HttpClient.request (src/src/client.ts:32-98)
\* ------------------------------------------------------------------------

\* A variant of BuildHeaders that always adds x-api-key.
BuildHeadersBothKeys(cfg, hasBody) ==
  {<<"User-Agent", "@payzcore/node/1.1.5">>, <<"x-api-key", cfg.apiKey>>}
  \cup (IF hasBody THEN {<<"Content-Type", "application/json">>} ELSE {})
  \cup (IF cfg.useMasterKey THEN {<<"x-master-key", cfg.apiKey>>} ELSE {})

\* Lines 35-46: the headers object, as a set of <<name, value>> pairs.
BuildHeaders(cfg, hasBody) ==
  {<<"User-Agent", "@payzcore/node/1.1.5">>}
  \cup (IF hasBody THEN {<<"Content-Type", "application/json">>} ELSE {})
  \cup (IF cfg.useMasterKey THEN {<<"x-master-key", cfg.apiKey>>}
        ELSE {<<"x-api-key", cfg.apiKey>>})

\* 2 ** n
RECURSIVE Pow2(_)
Pow2(n) == IF n <= 0 THEN 1 ELSE 2 * Pow2(n - 1)

\* A variant of BackoffMs whose exponent is the attempt index itself.
BackoffMsFromAttempt(a) == RETRY_BASE_MS * Pow2(a)

\* Line 52: RETRY_BASE_MS * 2 ** (attempt - 1)
BackoffMs(a) == RETRY_BASE_MS * Pow2(a - 1)

\* A variant of LoopContinues that goes round once more.
LoopContinuesOnceMore(a, cfg) == a <= cfg.maxRetries + 1

\* Line 50: the loop condition.
LoopContinues(a, cfg) == a <= cfg.maxRetries

\* Line 97: throw lastError ?? new PayzCoreError(...)
ExhaustedError(last) ==
  IF last = NoError
  THEN PayzCoreError("Request failed after retries", 0, "network_error", 0 - 1)
  ELSE last

\* A variant of KeepError that keeps the first error captured.
KeepFirstError(previous, err) == IF previous = NoError THEN err ELSE previous

\* Lines 78 and 93: the error kept for the next iteration.
KeepError(previous, err) == err

\* A variant of EnterIteration whose loop counter is one field shared by
\* all calls instead of a local of each call.
EnterIterationSharedAttempt(c, a, last, hdrs, cfg) ==
  /\ attempt' = [d \in Calls |-> a]
  /\ lastError' = [lastError EXCEPT ![c] = last]
  /\ IF ~LoopContinues(a, cfg)
     THEN /\ pc' = [pc EXCEPT ![c] = "raised"]
          /\ result' = [result EXCEPT ![c].error = ExhaustedError(last)]
          /\ UNCHANGED <<fetched, sleeps>>
     ELSE IF a > 0
     THEN /\ pc' = [pc EXCEPT ![c] = "sleeping"]
          /\ sleeps' = [sleeps EXCEPT ![c] = Append(@, BackoffMs(a))]
          /\ UNCHANGED <<fetched, result>>
     ELSE /\ pc' = [pc EXCEPT ![c] = "fetching"]
          /\ fetched' = [fetched EXCEPT ![c] = Append(@, hdrs)]
          /\ UNCHANGED <<sleeps, result>>

\* Top of the loop for iteration a of call c (lines 50-61, 97): leave the
\* loop and throw, or sleep before a retry, or call fetch at once.
EnterIteration(c, a, last, hdrs, cfg) ==
  /\ attempt' = [attempt EXCEPT ![c] = a]
  /\ lastError' = [lastError EXCEPT ![c] = last]
  /\ IF ~LoopContinues(a, cfg)
     THEN /\ pc' = [pc EXCEPT ![c] = "raised"]
          /\ result' = [result EXCEPT ![c].error = ExhaustedError(last)]
          /\ UNCHANGED <<fetched, sleeps>>
     ELSE IF a > 0
     THEN /\ pc' = [pc EXCEPT ![c] = "sleeping"]
          /\ sleeps' = [sleeps EXCEPT ![c] = Append(@, BackoffMs(a))]
          /\ UNCHANGED <<fetched, result>>
     ELSE /\ pc' = [pc EXCEPT ![c] = "fetching"]
          /\ fetched' = [fetched EXCEPT ![c] = Append(@, hdrs)]
          /\ UNCHANGED <<sleeps, result>>

\* request(method, path, body) is called on client cl: lines 32-61.
Request(c, cl, hasBody) ==
  /\ pc[c] = "idle"
  /\ instance' = [instance EXCEPT ![c] = cl]
  /\ headers' = [headers EXCEPT ![c] = BuildHeaders(config[cl], hasBody)]
  /\ EnterIteration(c, 0, NoError, BuildHeaders(config[cl], hasBody), config[cl])
  /\ UNCHANGED <<options, config, settled, response, transient, whVars>>

\* The sleep of line 52 elapses: fetch is called (lines 56-61).
SleepElapses(c) ==
  /\ pc[c] = "sleeping"
  /\ pc' = [pc EXCEPT ![c] = "fetching"]
  /\ fetched' = [fetched EXCEPT ![c] = Append(@, headers[c])]
  /\ settled' = [settled EXCEPT ![c] = "pending"]
  /\ UNCHANGED <<options, config, instance, headers, attempt, lastError,
                 result, response, sleeps, transient, whVars>>

\* The promise "return (await response.json())" of line 64 settles to, and
\* what lines 68-78 do with a response that is not ok: kind is "return",
\* "throw" (into the catch block) or "keep" (lastError is assigned).
TryBlock(resp, at) ==
  IF ResponseOk(resp)
  THEN LET parsed == ResponseJson(resp.body) IN
       IF parsed.ok
       THEN [kind |-> "return", val |-> parsed.val, err |-> NoError]
       ELSE [kind |-> "throw", val |-> JsonNull,
             err |-> RawError("SyntaxError", "Unexpected token", at)]
  ELSE LET built == BuildApiError(resp, at) IN
       IF resp.status < 500 \/ resp.status = 429 \/ built.thrown
       THEN [kind |-> "throw", val |-> JsonNull, err |-> built.err]
       ELSE [kind |-> "keep", val |-> JsonNull, err |-> built.err]

\* Lines 79-94: the catch block rethrows the SDK's errors and keeps the rest.
CatchRethrows(err) == InstanceOfPayzCoreError(err)

\* A response with a status in [500, 599].
ServerError(resp) == resp.status >= 500 /\ resp.status <= 599

\* The call leaves request() by returning value v.
Returns(c, v) ==
  /\ pc' = [pc EXCEPT ![c] = "returned"]
  /\ result' = [result EXCEPT ![c].value = v]
  /\ UNCHANGED <<attempt, lastError, fetched, sleeps>>

\* The call leaves request() by throwing err out of the catch block.
Raises(c, err) ==
  /\ pc' = [pc EXCEPT ![c] = "raised"]
  /\ result' = [result EXCEPT ![c].error = err]
  /\ UNCHANGED <<attempt, lastError, fetched, sleeps>>

\* Lines 78, 93 and the loop's attempt++: keep err and go round the loop.
NextIteration(c, err) ==
  EnterIteration(c, attempt[c] + 1, KeepError(lastError[c], err), headers[c],
                 config[instance[c]])

\* fetch resolves with a response: lines 63-94, then the loop.
FetchResolves(c, resp) ==
  /\ pc[c] = "fetching"
  /\ settled' = [settled EXCEPT ![c] = "resolved"]
  /\ response' = [response EXCEPT ![c] = resp]
  /\ transient' = [transient EXCEPT ![c] = @ /\ ServerError(resp)]
  /\ LET t == TryBlock(resp, attempt[c]) IN
     CASE t.kind = "return" -> Returns(c, t.val)
       [] t.kind = "throw" /\ CatchRethrows(t.err) -> Raises(c, t.err)
       [] OTHER -> NextIteration(c, t.err)
  /\ UNCHANGED <<options, config, instance, headers, whVars>>

\* fetch rejects: a network failure (TypeError) or the AbortSignal.timeout
\* of line 60 (TimeoutError).  Lines 79-94, then the loop.
FetchRejects(c, cause) ==
  /\ pc[c] = "fetching"
  /\ settled' = [settled EXCEPT ![c] = cause]
  /\ transient' = transient
  /\ LET err == IF cause = "timeout"
                THEN RawError("TimeoutError", "The operation timed out", attempt[c])
                ELSE RawError("TypeError", "fetch failed", attempt[c]) IN
     IF CatchRethrows(err) THEN Raises(c, err) ELSE NextIteration(c, err)
  /\ UNCHANGED <<options, config, instance, headers, response, whVars>>

\* ------------------------------------------------------------------------
\* Specification of the transport: one request() call on either client
\* ------------------------------------------------------------------------

\* No request() call has been made.
IdleCalls ==
  /\ pc = [c \in Calls |-> "idle"]
  /\ instance = [c \in Calls |-> "k1"]
  /\ headers = [c \in Calls |-> {}]
  /\ attempt = [c \in Calls |-> 0]
  /\ lastError = [c \in Calls |-> NoError]
  /\ result = [c \in Calls |-> [value |-> JsonNull, error |-> NoError]]
  /\ settled = [c \in Calls |-> "pending"]
  /\ response = [c \in Calls |-> NoResponse]
  /\ fetched = [c \in Calls |-> <<>>]
  /\ sleeps = [c \in Calls |-> <<>>]
  /\ transient = [c \in Calls |-> TRUE]

\* new HttpClient(apiKey) without options.
NoClientOptions == [maxRetries |-> [given |-> FALSE, n |-> 0], masterKey |-> Absent]

InitHttp ==
  /\ \E o1 \in OptionsSet, o2 \in OptionsK2 :
       options = [cl \in Clients |-> IF cl = "k1" THEN o1 ELSE o2]
  /\ config = [cl \in Clients |-> Constructor(ApiKeyOf(cl), options[cl])]
  /\ IdleCalls

\* ------------------------------------------------------------------------
\* Arguments of a webhook call
\* ------------------------------------------------------------------------

WebhookSecrets == {<<"whsec_1">>, <<"whsec_2">>}
WebhookBodies == {<<"{}">>, <<"000", ".", "{}">>}

\* The texts of the X-PayzCore-Timestamp header that are dates.
DateTexts ==
  {<<tok>> : tok \in DateTokens}
  \cup {<<tok, ".", frac>> : tok \in DateTokens, frac \in Fractions}

\* options.timestamp: missing, empty, not a date, or a date.
TimestampOptions ==
  {NoHeader, Header(<<>>), Header(<<"yesterday">>)}
  \cup {Header(text) : text \in DateTexts}

\* options.toleranceMs: missing, 0 or 1.
ToleranceOptions ==
  {[given |-> FALSE, n |-> 0], [given |-> TRUE, n |-> 0], [given |-> TRUE, n |-> 1]}

NoOptions ==
  [given |-> FALSE, timestamp |-> NoHeader, toleranceMs |-> [given |-> FALSE, n |-> 0]]

WebhookOptions ==
  {NoOptions}
  \cup [given : {TRUE}, timestamp : TimestampOptions, toleranceMs : ToleranceOptions]

\* What the sender puts in X-PayzCore-Signature for a delivery it signs
\* with secret s at timestamp t for body b.
SenderSignature(s, t, b) == DigestHex(Hmac(s, SignedMessage(t, b)))

\* The signature argument: empty, a sender's signature, the same in
\* upper-case digits, or the same with its last digit cut off.
WebhookSignatures ==
  {EmptyText}
  \cup {[SenderSignature(s, t, b) EXCEPT !.form = f] :
          s \in WebhookSecrets, t \in DateTexts, b \in WebhookBodies,
          f \in {"lower", "upper"}}
  \cup {[SenderSignature(s, t, b) EXCEPT !.len = HexLen - 1] :
          s \in WebhookSecrets, t \in DateTexts, b \in WebhookBodies}

WebhookArgs ==
  [body : WebhookBodies \cup {<<>>},
   signature : WebhookSignatures,
   secret : WebhookSecrets \cup {<<>>},
   options : WebhookOptions]

NotCalled == [raised |-> FALSE, value |-> FALSE]

NoEvent ==
  [kind |-> "none", error |-> "", message |-> "", payload |-> NoPayload,
   warnings |-> <<>>, parsed |-> FALSE]

\* The transport at rest, for the specification of the webhook functions.
IdleWebhook ==
  /\ now = BaseMs
  /\ whArgs = [body |-> <<>>, signature |-> EmptyText, secret |-> <<>>,
               options |-> NoOptions]
  /\ whPc = "ready"
  /\ whResult = NotCalled
  /\ evResult = NoEvent
  /\ console = <<>>

Init == InitHttp /\ IdleWebhook

Next ==
  \/ \E cl \in Clients, hasBody \in BOOLEAN : Request("c1", cl, hasBody)
  \/ SleepElapses("c1")
  \/ \E resp \in Responses : FetchResolves("c1", resp)
  \/ \E cause \in {"network", "timeout"} : FetchRejects("c1", cause)

Spec == Init /\ [][Next]_vars

\* ------------------------------------------------------------------------
\* Specification of the webhook functions: one call on enumerated arguments
\* ------------------------------------------------------------------------

\* verifyWebhookSignature(body, signature, secret, options) is called.
CallVerifyWebhookSignature ==
  /\ whPc = "ready"
  /\ whResult' = verifyWebhookSignature(whArgs.body, whArgs.signature,
                                         whArgs.secret, whArgs.options, now)
  /\ whPc' = "done"
  /\ UNCHANGED <<now, whArgs, evResult, console, httpVars>>

InitWebhook ==
  /\ options = [cl \in Clients |-> NoClientOptions]
  /\ config = [cl \in Clients |-> Constructor(ApiKeyOf(cl), options[cl])]
  /\ IdleCalls
  /\ now = BaseMs
  /\ whArgs \in WebhookArgs
  /\ whPc = "ready"
  /\ whResult = NotCalled
  /\ evResult = NoEvent
  /\ console = <<>>

NextWebhook == CallVerifyWebhookSignature

SpecWebhook == InitWebhook /\ [][NextWebhook]_vars

\* ------------------------------------------------------------------------
\* Specification of parseWebhook and constructEvent: one call of either on
\* an enumerated delivery
\* ------------------------------------------------------------------------

\* The value tokens enumerated per wire member; Omitted leaves it out.
Omitted == "(omitted)"
NetworkTokens == {Omitted, "null", "''", "TRC20", "ARBITRUM", "XYZ999"}
TokenTokens == {Omitted, "null", "''", "USDT", "USDC", "DAI"}
OrderIdTokens == {Omitted, "null", "order-1"}
BuyerEmailTokens == {Omitted, "null", "buyer@example.com"}
PaymentLinkTokens == {Omitted, "null", "pl_1"}

Member(name, tok) == IF tok = Omitted THEN <<>> ELSE <<name, tok>>

\* The body texts that are JSON objects.
ObjectBodies ==
  {<<"{">> \o Member("network", n) \o Member("token", t)
          \o Member("external_order_id", o) \o Member("buyer_email", e)
          \o Member("payment_link_id", l) \o <<"}">> :
     n \in NetworkTokens, t \in TokenTokens, o \in OrderIdTokens,
     e \in BuyerEmailTokens, l \in PaymentLinkTokens}

\* The body texts enumerated: objects, null, a number, malformed JSON, empty.
EventBodies ==
  ObjectBodies \cup {<<"null">>, <<"7">>, <<"{", "network">>, <<"<html>">>, <<>>}

\* The options enumerated: none, a fresh timestamp, a stale one.
EventOptions ==
  {NoOptions,
   [given |-> TRUE, timestamp |-> Header(<<"+0s">>),
    toleranceMs |-> [given |-> FALSE, n |-> 0]],
   [given |-> TRUE, timestamp |-> Header(<<"-301s">>),
    toleranceMs |-> [given |-> FALSE, n |-> 0]]}

\* The deliveries enumerated: signed by the sender with the right secret
\* or another one, or not signed.
EventArgs ==
  UNION
    {[body : {b}, secret : {<<"whsec_1">>}, options : {o},
      signature : {EmptyText,
                   SenderSignature(<<"whsec_1">>, TimestampOf(o), b),
                   SenderSignature(<<"whsec_2">>, TimestampOf(o), b)}] :
       b \in EventBodies, o \in EventOptions}

\* parseWebhook(body) is called.
CallParseWebhook ==
  /\ whPc = "ready"
  /\ evResult' = parseWebhook(whArgs.body)
  /\ console' = console \o parseWebhook(whArgs.body).warnings
  /\ whPc' = "done"
  /\ UNCHANGED <<now, whArgs, whResult, httpVars>>

\* constructEvent(body, signature, secret, options) is called.
CallConstructEvent ==
  /\ whPc = "ready"
  /\ LET r == constructEvent(whArgs.body, whArgs.signature, whArgs.secret,
                             whArgs.options, now) IN
     /\ evResult' = r
     /\ console' = console \o r.warnings
  /\ whResult' = verifyWebhookSignature(whArgs.body, whArgs.signature,
                                         whArgs.secret, whArgs.options, now)
  /\ whPc' = "construct-done"
  /\ UNCHANGED <<now, whArgs, httpVars>>

InitEvent ==
  /\ options = [cl \in Clients |-> NoClientOptions]
  /\ config = [cl \in Clients |-> Constructor(ApiKeyOf(cl), options[cl])]
  /\ IdleCalls
  /\ now = BaseMs
  /\ whArgs \in EventArgs
  /\ whPc = "ready"
  /\ whResult = NotCalled
  /\ evResult = NoEvent
  /\ console = <<>>

NextEvent ==
  \/ CallParseWebhook
  \/ CallConstructEvent

SpecEvent == InitEvent /\ [][NextEvent]_vars

\* ------------------------------------------------------------------------
\* Properties of HttpClient.request
\* ------------------------------------------------------------------------

\* The latest fetch of call c resolved with a response and request() has
\* handled it (the call is at its next suspension point or has ended).
Handled(c) == settled[c] = "resolved"

\* The call has left request().
Ended(c) == pc[c] \in {"returned", "raised"}

\* A 4xx status other than 429.
ClientErrorStatus(status) == status >= 400 /\ status <= 499 /\ status # 429

\* The error class the transport contract assigns to a status.
VariantOf(status) ==
  CASE status = 400 -> "ValidationError"
    [] status = 401 -> "AuthenticationError"
    [] status = 403 -> "ForbiddenError"
    [] status = 404 -> "NotFoundError"
    [] status = 409 -> "IdempotencyError"
    [] status = 429 -> "RateLimitError"
    [] OTHER -> "PayzCoreError"

\* The status and code fields the error classes fix.
FixedFields(e) ==
  CASE e.name = "ValidationError" -> e.status = 400 /\ e.code = "validation_error"
    [] e.name = "AuthenticationError" ->
         e.status = 401 /\ e.code = "authentication_error"
    [] e.name = "ForbiddenError" -> e.status = 403 /\ e.code = "forbidden"
    [] e.name = "NotFoundError" -> e.status = 404 /\ e.code = "not_found"
    [] e.name = "IdempotencyError" -> e.status = 409 /\ e.code = "idempotency_error"
    [] e.name = "RateLimitError" -> e.status = 429 /\ e.code = "rate_limit_error"
    [] OTHER -> TRUE

\* C1: after a response with a 4xx status other than 429, whatever its
\* body, request() has raised the error class matching the status on that
\* same attempt: no sleep and no further fetch follows the response.
C1_ClientErrorNeverRetried ==
  \A c \in Calls :
    (Handled(c) /\ ClientErrorStatus(response[c].status)) =>
      /\ pc[c] = "raised"
      /\ result[c].error.name = VariantOf(response[c].status)
      /\ result[c].error.at = attempt[c]
      /\ Len(fetched[c]) = attempt[c] + 1

\* C2: a call that ended after at least one attempt, all of whose attempts
\* ended in a 5xx response, a network failure or a timeout, has raised,
\* after exactly maxRetries + 1 fetches, the error of its last attempt.
C2_ExhaustedRaisesLastFailure ==
  \A c \in Calls :
    (Ended(c) /\ transient[c] /\ Len(fetched[c]) > 0) =>
      /\ pc[c] = "raised"
      /\ Len(fetched[c]) = config[instance[c]].maxRetries + 1
      /\ result[c].error.at = Len(fetched[c]) - 1
      /\ (settled[c] = "timeout") = (result[c].error.name = "TimeoutError")
      /\ (settled[c] = "resolved" /\ InstanceOfPayzCoreError(result[c].error))
           => result[c].error.status = response[c].status

\* C2 witness: three attempts (a 5xx response, then others) ended in a
\* timeout on the third, which is the error raised.
C2_Witness ==
  /\ pc["c1"] = "raised" /\ transient["c1"]
  /\ Len(fetched["c1"]) = 3 /\ Len(sleeps["c1"]) = 2
  /\ lastError["c1"].name = "TimeoutError"
  /\ response["c1"].status = 503

\* C3: after a 2xx response, whatever its body, request() has returned on
\* that attempt: no sleep and no further fetch follows, nothing is raised.
C3_SuccessEndsTheCall ==
  \A c \in Calls :
    (Handled(c) /\ ResponseOk(response[c])) =>
      /\ pc[c] = "returned"
      /\ Len(fetched[c]) = attempt[c] + 1

\* C4: after a 429 response request() has raised a RateLimitError on that
\* attempt; its retryAfter is an integer, or null exactly when the
\* X-RateLimit-Reset header is missing or empty, never NaN; its isDaily is
\* true exactly when X-RateLimit-Daily is "true".
C4_RateLimitRaisedAtOnce ==
  \A c \in Calls :
    (Handled(c) /\ response[c].status = 429) =>
      /\ pc[c] = "raised"
      /\ result[c].error.name = "RateLimitError"
      /\ result[c].error.at = attempt[c]
      /\ result[c].error.retryAfter.t \in {"int", "null"}
      /\ ~response[c].reset.present => result[c].error.retryAfter = NullNum
      /\ result[c].error.isDaily = (response[c].daily = Header(<<"true">>))

\* C5: whatever request() raises is a PayzCoreError (the base class or one
\* of its subclasses, carrying a status and a code); in particular the
\* error raised when the last attempt ended in a network failure or a
\* timeout is one.
C5_NetworkFailureRaisedAsPayzCoreError ==
  \A c \in Calls :
    (pc[c] = "raised" /\ settled[c] \in {"network", "timeout"}) =>
      InstanceOfPayzCoreError(result[c].error)

\* The error the latest response of call c was turned into: the one raised,
\* or the one kept in lastError for the next iteration.
ErrorBuilt(c) == IF pc[c] = "raised" THEN result[c].error ELSE lastError[c]

\* C6: every response that is not 2xx is turned into the error class its
\* status maps to (400 Validation with the body's details, 401, 403, 404,
\* 409, 429, anything else the generic class with that status and code
\* "api_error"), and each class has its fixed status and code.
C6_StatusMapsToVariant ==
  \A c \in Calls :
    (Handled(c) /\ ~ResponseOk(response[c])) =>
      LET e == ErrorBuilt(c) IN
      /\ e.name = VariantOf(response[c].status)
      /\ FixedFields(e)
      /\ e.status = response[c].status
      /\ e.name = "PayzCoreError" => e.code = "api_error"
      /\ (e.name = "ValidationError" /\ ResponseJson(response[c].body).ok)
           => e.details = ResponseJson(response[c].body).val.details

\* The authentication headers among a set of headers.
AuthHeaders(hdrs) == {h \in hdrs : h[1] \in {"x-api-key", "x-master-key"}}

\* C7: every fetch of every call carries exactly one authentication header:
\* x-master-key when the client was constructed with masterKey true, else
\* x-api-key, with the apiKey given at construction as its value.
C7_ExactlyOneAuthHeader ==
  \A c \in Calls :
    \A i \in 1 .. Len(fetched[c]) :
      AuthHeaders(fetched[c][i]) =
        {<<IF options[instance[c]].masterKey = "true" THEN "x-master-key"
           ELSE "x-api-key",
           ApiKeyOf(instance[c])>>}

\* C7 witness: a call on a master-key client has fetched three times (the
\* first attempt and two retries).
C7_Witness ==
  /\ Len(fetched["c1"]) = 3
  /\ options[instance["c1"]].masterKey = "true"
  /\ <<"x-master-key", ApiKeyOf(instance["c1"])>> \in fetched["c1"][3]

\* ------------------------------------------------------------------------
\* Properties of verifyWebhookSignature
\* ------------------------------------------------------------------------

\* The call has been made with a body, a signature and a secret that are
\* not empty and a timestamp that is a date; ts is its instant.
VerifiedWithDate ==
  /\ whPc = "done"
  /\ whArgs.body # <<>> /\ whArgs.signature.len > 0 /\ whArgs.secret # <<>>
  /\ whArgs.options.given /\ whArgs.options.timestamp.present
  /\ whArgs.options.timestamp.text \in DateTexts

\* The lowercase-hex HMAC of the secret over timestamp + "." + body, for
\* the arguments of the call.
ExpectedSignature ==
  [digest |-> <<whArgs.secret,
                whArgs.options.timestamp.text \o <<".">> \o whArgs.body>>,
   form |-> "lower", len |-> 64]

\* The timestamp of the call is the current time.
TimestampIsNow ==
  DateGetTime(whArgs.options.timestamp.text) = [t |-> "int", v |-> now]

\* The signature of the call is what a sender made for <<s, t, b>>, which
\* differs from the secret, timestamp and body of the call in exactly one.
SignedForOneChanged ==
  \E s \in WebhookSecrets, t \in DateTexts, b \in WebhookBodies :
    /\ whArgs.signature =
         [digest |-> <<s, t \o <<".">> \o b>>, form |-> "lower", len |-> 64]
    /\ \/ s # whArgs.secret /\ t = whArgs.options.timestamp.text /\ b = whArgs.body
       \/ s = whArgs.secret /\ t # whArgs.options.timestamp.text /\ b = whArgs.body
       \/ s = whArgs.secret /\ t = whArgs.options.timestamp.text /\ b # whArgs.body

\* C8: with non-empty arguments and a timestamp equal to the current time,
\* the call returns true exactly when the signature is the lowercase-hex
\* HMAC of the secret over timestamp + "." + body; a signature made for a
\* different secret, timestamp or body (one changed, the others kept), and a
\* changed signature, give false.
C8_TrueIffSignatureMatches ==
  (VerifiedWithDate /\ TimestampIsNow) =>
    /\ ~whResult.raised
    /\ whResult.value = (whArgs.signature = ExpectedSignature)
    /\ SignedForOneChanged => whResult.value = FALSE

\* C8 witness: a call at the current time with the matching signature
\* returned true.
C8_Witness ==
  /\ VerifiedWithDate /\ TimestampIsNow
  /\ whArgs.signature = ExpectedSignature
  /\ whResult.value = TRUE

\* |now - timestamp| of the call, and the tolerance in force (300000 when
\* options.toleranceMs is not given).
TimestampAge ==
  LET ts == DateGetTime(whArgs.options.timestamp.text).v IN
  IF now >= ts THEN now - ts ELSE ts - now

ToleranceInForce ==
  IF whArgs.options.toleranceMs.given THEN whArgs.options.toleranceMs.n
  ELSE 300000

\* C9: a timestamp further than toleranceMs from now (older or newer) gives
\* false whatever the signature; a timestamp exactly toleranceMs from now
\* with the correct signature gives true; toleranceMs defaults to 300000.
C9_ReplayWindow ==
  VerifiedWithDate =>
    /\ TimestampAge > ToleranceInForce => whResult.value = FALSE
    /\ (TimestampAge = ToleranceInForce /\ whArgs.signature = ExpectedSignature)
         => whResult.value = TRUE

\* C9 witness: a correctly signed call whose timestamp is exactly 300000 ms
\* in the future, under the default tolerance, returned true.
C9_Witness ==
  /\ VerifiedWithDate
  /\ ~whArgs.options.toleranceMs.given
  /\ DateGetTime(whArgs.options.timestamp.text).v = now + 300000
  /\ whArgs.signature = ExpectedSignature
  /\ whResult.value = TRUE

Constructed == whPc = "construct-done"

\* The signature check of the call returned true / returned false.
Verified == ~whResult.raised /\ whResult.value
Rejected == ~whResult.raised /\ ~whResult.value

\* The body cannot be turned into a payload: it is no JSON, or it is the
\* JSON null.
Unparseable(body) == ~JsonParse(body).ok \/ JsonParse(body).t = "null"

RaisedSignatureError(message) ==
  /\ evResult.kind = "raised"
  /\ evResult.error = "WebhookSignatureError"
  /\ evResult.message = message

\* C11: constructEvent ends by returning a payload or by raising
\* WebhookSignatureError and nothing else.  When the signature check
\* returns false it raises it with the default message and never parses
\* the body; when the check returns true and the body cannot be parsed
\* (malformed JSON, or the JSON null) it raises it with the message
\* "Invalid webhook payload"; otherwise it returns the payload.
C11_VerifyThenParse ==
  Constructed =>
    /\ \/ evResult.kind = "payload"
       \/ evResult.kind = "raised" /\ evResult.error = "WebhookSignatureError"
    /\ Rejected =>
         /\ RaisedSignatureError("Webhook signature verification failed")
         /\ ~evResult.parsed
    /\ (Verified /\ Unparseable(whArgs.body)) =>
         RaisedSignatureError("Invalid webhook payload")
    /\ (Verified /\ ~Unparseable(whArgs.body)) =>
         /\ evResult.kind = "payload"
         /\ evResult.parsed

\* A correctly signed delivery whose body is the JSON null was refused
\* with "Invalid webhook payload".
C11_Witness ==
  /\ Constructed
  /\ Verified
  /\ whArgs.body = <<"null">>
  /\ RaisedSignatureError("Invalid webhook payload")

Parsed == whPc = "done"

\* The body of the call is a JSON object; Wire(name) is its member.
ObjectBody == JsonParse(whArgs.body).ok /\ JsonParse(whArgs.body).t = "object"
Wire(name) == JsonParse(whArgs.body).members[name]

\* The network, buyer and payment-link members come out as they went in.
PassedThrough ==
  /\ evResult.kind = "payload"
  /\ evResult.payload.network = Wire("network")
  /\ evResult.payload.buyerEmail = Wire("buyer_email")
  /\ evResult.payload.paymentLinkId = Wire("payment_link_id")

\* C12 as stated: parseWebhook of a JSON object yields token "USDT" when
\* the member token is absent, any present token and any network
\* unchanged, and the buyer and payment-link members as they are (string,
\* null or absent).
C12_TokenDefaultsOnlyWhenAbsent ==
  (Parsed /\ ObjectBody) =>
    /\ PassedThrough
    /\ Wire("token") = Undefined => evResult.payload.token = Str("USDT")
    /\ Wire("token") # Undefined => evResult.payload.token = Wire("token")

\* C12 amended: parseWebhook of a JSON object yields token "USDT" when
\* the member token is absent or null, any other present token and any
\* network unchanged, and the buyer and payment-link members as they are
\* (string, null or absent).
C12_TokenDefaultsWhenAbsentOrNull ==
  (Parsed /\ ObjectBody) =>
    /\ PassedThrough
    /\ Wire("token") \in {Undefined, Null} => evResult.payload.token = Str("USDT")
    /\ Wire("token") \notin {Undefined, Null} =>
         evResult.payload.token = Wire("token")

\* A body with "token": null, network "XYZ999" and a null buyer e-mail was
\* parsed: token "USDT", the other two unchanged.
C12_Witness ==
  /\ Parsed /\ ObjectBody
  /\ Wire("token") = Null
  /\ Wire("network") = Str("XYZ999")
  /\ Wire("buyer_email") = Null
  /\ evResult.kind = "payload"
  /\ evResult.payload.token = Str("USDT")
  /\ evResult.payload.network = Str("XYZ999")
  /\ evResult.payload.buyerEmail = Null

\* The diagnostics a call of parseWebhook wrote.
WarnedNetwork ==
  \E i \in 1 .. Len(console) : console[i][1] = "[PayzCore] Unknown network in webhook: "
WarnedToken ==
  \E i \in 1 .. Len(console) : console[i][1] = "[PayzCore] Unknown token in webhook: "

\* The member is a string of the supported set / a string outside it.
Supported(v, set) == v.t = "string" /\ v.s \in set
Outside(v, set) == v.t = "string" /\ v.s \notin set

\* The payload of the body computed with no diagnostics at all.
SilentPayload == Payload(JsonParse(whArgs.body).members)

\* A diagnostic neither raises nor changes what is returned.
DiagnosticsHarmless ==
  /\ evResult.kind = "payload"
  /\ evResult.payload = SilentPayload

MaxRetriesSeq == 3

\* Client k1 authenticates with its API key and retries MaxRetriesSeq
\* times, client k2 with its master key and the default number of retries.
OptionsConc ==
  [cl \in Clients |->
     IF cl = "k1"
     THEN [maxRetries |-> [given |-> TRUE, n |-> MaxRetriesSeq], masterKey |-> Absent]
     ELSE [maxRetries |-> [given |-> FALSE, n |-> 0], masterKey |-> "true"]]

\* The responses of this specification: success, a client error, a server
\* error, each with an object body or the body null.
ResponsesConc ==
  {r \in Responses : r.status \in {200, 404, 503} /\ r.body \in {"{}", "null"}}

InitConc ==
  /\ options = OptionsConc
  /\ config = [cl \in Clients |-> Constructor(ApiKeyOf(cl), options[cl])]
  /\ IdleCalls
  /\ IdleWebhook

NextConc ==
  \/ \E c \in Calls, cl \in Clients, hasBody \in BOOLEAN : Request(c, cl, hasBody)
  \/ \E c \in Calls : SleepElapses(c)
  \/ \E c \in Calls, resp \in ResponsesConc : FetchResolves(c, resp)
  \/ \E c \in Calls, cause \in {"network", "timeout"} : FetchRejects(c, cause)

SpecConc == InitConc /\ [][NextConc]_vars

\* ------------------------------------------------------------------------
\* Properties of concurrent calls and of the order of events in a call
\* ------------------------------------------------------------------------

\* Everything request() keeps for call c.
Locals(c) ==
  <<pc[c], instance[c], headers[c], attempt[c], lastError[c], result[c],
    settled[c], response[c], fetched[c], sleeps[c], transient[c]>>

\* The configuration of the client call c was made on.
OwnConfig(c) == config[instance[c]]

\* The authentication header the configuration cfg asks for.
OwnAuthHeader(cfg) ==
  <<IF cfg.useMasterKey THEN "x-master-key" ELSE "x-api-key", cfg.apiKey>>

\* Call c has sent its own client's header on every attempt, has made no
\* more attempts and slept no more often than its own client's maxRetries
\* allows, has slept the delays of its own retries, and, once it has
\* raised, has raised the error of its own last attempt.
FollowsOwnConfig(c) ==
  /\ \A i \in 1 .. Len(fetched[c]) :
       AuthHeaders(fetched[c][i]) = {OwnAuthHeader(OwnConfig(c))}
  /\ attempt[c] <= OwnConfig(c).maxRetries + 1
  /\ Len(fetched[c]) <= OwnConfig(c).maxRetries + 1
  /\ Len(sleeps[c]) <= OwnConfig(c).maxRetries
  /\ \A k \in 1 .. Len(sleeps[c]) : sleeps[c][k] = 200 * Pow2(k - 1)
  /\ pc[c] = "raised" =>
       /\ result[c].error.at = Len(fetched[c]) - 1
       /\ (settled[c] = "resolved" /\ InstanceOfPayzCoreError(result[c].error))
            => result[c].error.status = response[c].status

\* A step of one call leaves the other call as it was.
OneCallSteps == \E c \in Calls : \A d \in Calls \ {c} : Locals(d)' = Locals(d)

\* C14: concurrent request() calls do not interfere.  In every interleaving
\* each call follows its own client's configuration (header, number of
\* attempts, backoff delays, error raised); every step changes the locals
\* of one call only; and no step changes the options or the configuration
\* of any client.
C14_CallsDoNotInterfere ==
  /\ [](\A c \in Calls : pc[c] # "idle" => FollowsOwnConfig(c))
  /\ [][OneCallSteps /\ config' = config /\ options' = options]_vars

\* Two calls on two clients ran interleaved to the end: the one on k1 sent
\* x-api-key on each of its maxRetries + 1 attempts, the one on k2
\* x-master-key on each of its three, and each raised its own last error.
C14_Witness ==
  /\ instance["c1"] = "k1" /\ instance["c2"] = "k2"
  /\ pc["c1"] = "raised" /\ pc["c2"] = "raised"
  /\ Len(fetched["c1"]) = config["k1"].maxRetries + 1
  /\ Len(fetched["c2"]) = 3
  /\ <<"x-api-key", "pk_live_1">> \in fetched["c1"][1]
  /\ <<"x-master-key", "mk_live_2">> \in fetched["c2"][3]
  /\ result["c1"].error.name = "TimeoutError"
  /\ result["c2"].error.name = "PayzCoreError"

\* The events of call c are in the order attempt, sleep, attempt, ...: with
\* n sleeps made there are n attempts while the n-th sleep lasts and n + 1
\* from then on; no sleep comes before the first attempt; the k-th sleep
\* lasts 200 * 2^(k-1) ms.
Alternates(c) ==
  /\ pc[c] = "idle" => fetched[c] = <<>> /\ sleeps[c] = <<>>
  /\ pc[c] = "sleeping" =>
       Len(sleeps[c]) >= 1 /\ Len(fetched[c]) = Len(sleeps[c])
  /\ pc[c] = "fetching" => Len(fetched[c]) = Len(sleeps[c]) + 1
  /\ pc[c] \in {"returned", "raised"} /\ fetched[c] # <<>> =>
       Len(fetched[c]) = Len(sleeps[c]) + 1
  /\ \A k \in 1 .. Len(sleeps[c]) :
       sleeps[c][k] = (IF k = 1 THEN 200 ELSE 2 * sleeps[c][k - 1])

\* A sleep of call c starts only as its attempt in flight finishes, and an
\* attempt starts only as the call begins or as its sleep elapses: never
\* while another attempt of the call is in flight.
OneAtATime(c) ==
  /\ sleeps[c]' # sleeps[c] =>
       /\ pc[c] = "fetching" /\ pc[c]' = "sleeping"
       /\ Len(sleeps[c]') = Len(sleeps[c]) + 1
       /\ fetched[c]' = fetched[c]
  /\ fetched[c]' # fetched[c] =>
       /\ pc[c] \in {"idle", "sleeping"} /\ pc[c]' = "fetching"
       /\ Len(fetched[c]') = Len(fetched[c]) + 1
       /\ sleeps[c]' = sleeps[c]

\* C15: within one request() call the events are strictly ordered attempt,
\* sleep, attempt, sleep, ...: no sleep precedes the first attempt, exactly
\* one sleep separates a retry from the attempt before it, the k-th sleep
\* lasts 200 * 2^(k-1) ms exactly, and an attempt starts only after the
\* previous attempt has finished and the sleep has elapsed.
C15_AttemptsAndSleepsAlternate ==
  /\ [](\A c \in Calls : Alternates(c))
  /\ [][\A c \in Calls : OneAtATime(c)]_vars

\* A call on k1 is in its third retry: four attempts, separated by sleeps
\* of 200, 400 and 800 ms.
C15_Witness ==
  /\ pc["c1"] = "fetching"
  /\ Len(fetched["c1"]) = 4
  /\ sleeps["c1"] = <<200, 400, 800>>

\* ------------------------------------------------------------------------
\* Specification of the transport with every attempt completing
\* ------------------------------------------------------------------------

\* The fetch of call c settles: with a response, a network failure or the
\* timeout of line 60.
Settles(c) ==
  \/ \E resp \in ResponsesConc : FetchResolves(c, resp)
  \/ \E cause \in {"network", "timeout"} : FetchRejects(c, cause)

\* One call, on either client, constructed with any of the options.
NextFair ==
  \/ \E cl \in Clients, hasBody \in BOOLEAN : Request("c1", cl, hasBody)
  \/ SleepElapses("c1")
  \/ Settles("c1")

\* The timer of a sleep fires, and every fetch settles (at the latest by
\* its timeout).
SpecFair ==
  /\ Init
  /\ [][NextFair]_vars
  /\ \A c \in Calls : WF_vars(SleepElapses(c)) /\ WF_vars(Settles(c))

\* The state of the per-request state machine call c is in.
MachineState(c) ==
  CASE pc[c] = "idle" -> "NotStarted"
    [] pc[c] = "fetching" -> "Attempting"
    [] pc[c] = "sleeping" -> "RetryableFailure"
    [] pc[c] = "returned" -> "Success"
    [] pc[c] = "raised" /\ LoopContinues(attempt[c], OwnConfig(c)) -> "RaiseImmediate"
    [] OTHER -> "RaiseExhausted"

Terminal == {"Success", "RaiseImmediate", "RaiseExhausted"}

\* The moves of the state machine.  A call whose client allows no attempt
\* at all (maxRetries < 0) goes from its start to RaiseExhausted.
MachineMoves ==
  {<<"NotStarted", "Attempting">>,
   <<"Attempting", "Success">>,
   <<"Attempting", "RaiseImmediate">>,
   <<"Attempting", "RetryableFailure">>,
   <<"Attempting", "RaiseExhausted">>,
   <<"RetryableFailure", "Attempting">>,
   <<"NotStarted", "RaiseExhausted">>}

\* A step of call c is a move of the machine; the attempt index grows by
\* one on a retryable failure and not otherwise; a call in a terminal
\* state does nothing more.
MachineStep(c) ==
  /\ Locals(c)' # Locals(c) =>
       /\ <<MachineState(c), MachineState(c)'>> \in MachineMoves
       /\ attempt[c]' =
            (IF /\ MachineState(c) = "Attempting"
                /\ MachineState(c)' \in {"RetryableFailure", "RaiseExhausted"}
             THEN attempt[c] + 1 ELSE attempt[c])
  /\ MachineState(c) \in Terminal => Locals(c)' = Locals(c)
  /\ <<MachineState(c), MachineState(c)'>> = <<"NotStarted", "RaiseExhausted">>
       => OwnConfig(c)'.maxRetries < 0

\* The attempts made are the indices 0, 1, ... up to the current one, and
\* at most maxRetries + 1 of them; a call that returned raised nothing and
\* a call that raised returned nothing.
MachineBounds(c) ==
  /\ Len(fetched[c]) <= OwnConfig(c).maxRetries + 1 \/ fetched[c] = <<>>
  /\ MachineState(c) = "Attempting" => Len(fetched[c]) = attempt[c] + 1
  /\ MachineState(c) = "RetryableFailure" => Len(fetched[c]) = attempt[c]
  /\ MachineState(c) = "RaiseExhausted" =>
       attempt[c] = Len(fetched[c]) /\ ~LoopContinues(attempt[c], OwnConfig(c))
  /\ MachineState(c) = "Success" => result[c].error = NoError
  /\ pc[c] = "raised" => result[c].error # NoError /\ result[c].value = JsonNull

C17_FallbackNeverRaised ==
  \A c \in Calls :
    pc[c] = "raised" =>
      /\ Len(fetched[c]) >= 1
      /\ ~(result[c].error.code = "network_error" /\ result[c].error.status = 0)

\* The message the error of a response that is not ok is to carry: the
\* error member of a JSON body that has one; otherwise the reason phrase
\* or "Unknown error".
MessagesFor(resp) ==
  LET parsed == ResponseJson(resp.body) IN
  IF parsed.ok /\ parsed.val.error # Absent
  THEN {parsed.val.error}
  ELSE {"Unknown error"} \cup (IF resp.statusText = "" THEN {} ELSE {resp.statusText})

\* C18: decoding the body of a response that is not 2xx never fails.
\* Whatever the body, the response is turned into a PayzCoreError whose
\* message is the body's error member, or else the reason phrase or
\* "Unknown error"; and a 4xx or 429 response ends the call on that
\* attempt, whatever the body.
C18_ErrorDecodingNeverFails ==
  \A c \in Calls :
    (Handled(c) /\ ~ResponseOk(response[c])) =>
      /\ InstanceOfPayzCoreError(ErrorBuilt(c))
      /\ ErrorBuilt(c).message \in MessagesFor(response[c])
      /\ response[c].status < 500 =>
           pc[c] = "raised" /\ Len(fetched[c]) = attempt[c] + 1

=========================================================================
